---- MODULE Spec2Model ----
(***************************************************************************)
(* A model of the EditML library (verkaro/editml-go): the regex-based      *)
(* parser, the escape processing, the debug-comment filter and the Clean   *)
(* View transformer, with the two public API calls Parse and               *)
(* TransformCleanView as actions.                                          *)
(*                                                                         *)
(* A Go string is modelled as a sequence of one-character strings, so that *)
(* offsets, slices, substring tests and replacements are computed as the   *)
(* code computes them.  Offsets are Go's: 0-based, end-exclusive.          *)
(***************************************************************************)
EXTENDS Integers, Sequences, FiniteSets, TLC

VARIABLES
    pc,           \* position of the caller: "input", "parsed", "nodes", "done"
    inputText,    \* the text handed to Parse
    stripped,     \* textWithoutDebugComments, the text handed to the matcher
    placed,       \* the nodes returned by the matcher, each with its [start,end) span
    nodes,        \* the node sequence handed to TransformCleanView
    written,      \* per node, what the render pass wrote to the string builder
    outputText,   \* the string returned by TransformCleanView
    issues        \* the issue list returned by the last API call

vars == <<pc, inputText, stripped, placed, nodes, written, outputText, issues>>

----------------------------------------------------------------------------
(* Strings                                                                  *)

\* Go's s[a:b]
Slice(s, a, b) == SubSeq(s, a + 1, b)

RECURSIVE Flatten(_)
\* concatenation of a sequence of strings (successive sb.WriteString calls)
Flatten(ss) == IF ss = <<>> THEN <<>> ELSE Head(ss) \o Flatten(Tail(ss))

\* strings.HasPrefix(s[i:], w), i a 0-based offset
HasPrefixAt(s, i, w) == i + Len(w) <= Len(s) /\ Slice(s, i, i + Len(w)) = w

\* strings.Contains(s, sub)
Contains(s, sub) == \E i \in 0..(Len(s) - Len(sub)) : Slice(s, i, i + Len(sub)) = sub

RECURSIVE ReplaceAll(_, _, _)
\* strings.ReplaceAll(s, old, new) for a non-empty old: leftmost, non-overlapping
ReplaceAll(s, old, new) ==
    IF Len(s) < Len(old) THEN s
    ELSE IF SubSeq(s, 1, Len(old)) = old
         THEN new \o ReplaceAll(SubSeq(s, Len(old) + 1, Len(s)), old, new)
         ELSE <<Head(s)>> \o ReplaceAll(Tail(s), old, new)

Lower == {"a","b","c","d","e","f","g","h","i","j","k","l","m",
          "n","o","p","q","r","s","t","u","v","w","x","y","z"}
Upper == {"A","B","C","D","E","F","G","H","I","J","K","L","M",
          "N","O","P","Q","R","S","T","U","V","W","X","Y","Z"}
Digit == {"0","1","2","3","4","5","6","7","8","9"}

\* the character class [a-zA-Z0-9]
IsAlnum(c) == c \in Lower \cup Upper \cup Digit

RECURSIVE AlnumRun(_, _)
\* length of the maximal run of [a-zA-Z0-9] in s from 0-based offset i
AlnumRun(s, i) == IF i < Len(s) /\ IsAlnum(s[i + 1]) THEN 1 + AlnumRun(s, i + 1) ELSE 0

----------------------------------------------------------------------------
(* The eight regular expressions of the parser.  A compiled regexp is a    *)
(* record; RegexMatchAt computes the leftmost-first (Perl-priority) match   *)
(* of Go's regexp package that starts at a given offset, as the vector of   *)
(* submatch offsets m[0..7] of FindAllStringSubmatchIndex (-1: no match).   *)

\* quantifier bounds of editorIDPattern, [a-zA-Z0-9]{1,5}
EditorIDMinLen == 1
EditorIDMaxLen == 5

kwMove == <<"m","o","v","e">>
kwMv   == <<"m","v">>
kwM    == <<"m">>
kwCopy == <<"c","o","p","y">>
kwCp   == <<"c","p">>
kwC    == <<"c">>

addRegex       == [class |-> "inline", open |-> "+", close |-> "+"]
delRegex       == [class |-> "inline", open |-> "-", close |-> "-"]
commentRegex   == [class |-> "inline", open |-> ">", close |-> "<"]
highlightRegex == [class |-> "inline", open |-> "=", close |-> "="]
moveSourceRegex == [class |-> "source", keywords |-> <<kwMove, kwMv, kwM>>]
moveTargetRegex == [class |-> "target", keywords |-> <<kwMove, kwMv, kwM>>]
copySourceRegex == [class |-> "source", keywords |-> <<kwCopy, kwCp, kwC>>]
copyTargetRegex == [class |-> "target", keywords |-> <<kwCopy, kwCp, kwC>>]

NoMatch == [j \in 0..7 |-> -1]

\* `<close>(?:([a-zA-Z0-9]{1,5}))?\}` at offset k: the offset after the final
\* brace, or -1.  The id is greedy, and the brace that must follow is not
\* alphanumeric, so the id is the whole alphanumeric run or the match fails.
InlineTailEnd(s, k, close) ==
    IF ~(k < Len(s) /\ s[k + 1] = close) THEN -1
    ELSE LET r == AlnumRun(s, k + 1)
         IN  IF (r = 0 \/ (r >= EditorIDMinLen /\ r <= EditorIDMaxLen))
                /\ k + 1 + r < Len(s) /\ s[k + 1 + r + 1] = "}"
             THEN k + 1 + r + 1
             ELSE -1

\* `~([a-zA-Z0-9]+)\}` at offset k: the offset after the final brace, or -1
SourceTailEnd(s, k) ==
    IF ~(k < Len(s) /\ s[k + 1] = "~") THEN -1
    ELSE LET r == AlnumRun(s, k + 1)
         IN  IF r >= 1 /\ k + 1 + r < Len(s) /\ s[k + 1 + r + 1] = "}"
             THEN k + 1 + r + 1
             ELSE -1

RECURSIVE InlineContentEnd(_, _, _)
\* `(?s).*?` is non-greedy: the first offset k >= from at which the tail matches
InlineContentEnd(s, from, close) ==
    IF from >= Len(s) THEN -1
    ELSE IF InlineTailEnd(s, from, close) # -1 THEN from
    ELSE InlineContentEnd(s, from + 1, close)

RECURSIVE SourceContentEnd(_, _)
SourceContentEnd(s, from) ==
    IF from >= Len(s) THEN -1
    ELSE IF SourceTailEnd(s, from) # -1 THEN from
    ELSE SourceContentEnd(s, from + 1)

\* `(move|mv|m)` followed by the delimiter d, at offset i: the alternatives are
\* tried in order; the length of the keyword that matches, or 0
KeywordLen(s, i, keywords, d) ==
    LET ok(n) == HasPrefixAt(s, i, keywords[n] \o <<d>>)
    IN  IF ok(1) THEN Len(keywords[1])
        ELSE IF ok(2) THEN Len(keywords[2])
        ELSE IF ok(3) THEN Len(keywords[3])
        ELSE 0

InlineMatchAt(re, s, i) ==
    IF ~HasPrefixAt(s, i, <<"{", re.open>>) THEN NoMatch
    ELSE LET k == InlineContentEnd(s, i + 2, re.close)
         IN  IF k = -1 THEN NoMatch
             ELSE LET e == InlineTailEnd(s, k, re.close)
                      hasId == e - 1 > k + 1
                  IN  [j \in 0..7 |->
                         CASE j = 0 -> i
                           [] j = 1 -> e
                           [] j = 2 -> i + 2
                           [] j = 3 -> k
                           [] j = 4 -> IF hasId THEN k + 1 ELSE -1
                           [] j = 5 -> IF hasId THEN e - 1 ELSE -1
                           [] OTHER -> -1]

SourceMatchAt(re, s, i) ==
    IF ~HasPrefixAt(s, i, <<"{">>) THEN NoMatch
    ELSE LET n == KeywordLen(s, i + 1, re.keywords, "~")
         IN  IF n = 0 THEN NoMatch
             ELSE LET k == SourceContentEnd(s, i + 1 + n + 1)
                  IN  IF k = -1 THEN NoMatch
                      ELSE LET e == SourceTailEnd(s, k)
                           IN  [j \in 0..7 |->
                                  CASE j = 0 -> i
                                    [] j = 1 -> e
                                    [] j = 2 -> i + 1
                                    [] j = 3 -> i + 1 + n
                                    [] j = 4 -> i + 1 + n + 1
                                    [] j = 5 -> k
                                    [] j = 6 -> k + 1
                                    [] j = 7 -> e - 1]

TargetMatchAt(re, s, i) ==
    IF ~HasPrefixAt(s, i, <<"{">>) THEN NoMatch
    ELSE LET n == KeywordLen(s, i + 1, re.keywords, ":")
         IN  IF n = 0 THEN NoMatch
             ELSE LET t == i + 1 + n + 1
                      r == AlnumRun(s, t)
                  IN  IF r >= 1 /\ t + r < Len(s) /\ s[t + r + 1] = "}"
                      THEN [j \in 0..7 |->
                              CASE j = 0 -> i
                                [] j = 1 -> t + r + 1
                                [] j = 2 -> i + 1
                                [] j = 3 -> i + 1 + n
                                [] j = 4 -> t
                                [] j = 5 -> t + r
                                [] OTHER -> -1]
                      ELSE NoMatch

RegexMatchAt(re, s, i) ==
    CASE re.class = "inline" -> InlineMatchAt(re, s, i)
      [] re.class = "source" -> SourceMatchAt(re, s, i)
      [] re.class = "target" -> TargetMatchAt(re, s, i)

RECURSIVE FindFrom(_, _, _)
\* the successive non-overlapping matches from offset i on: the leftmost start
\* that has a match, then on from the end of that match (no match is empty)
FindFrom(re, s, i) ==
    IF i >= Len(s) THEN <<>>
    ELSE LET m == RegexMatchAt(re, s, i)
         IN  IF m[0] # -1 THEN <<m>> \o FindFrom(re, s, m[1])
             ELSE FindFrom(re, s, i + 1)

\* re.FindAllStringSubmatchIndex(s, -1)
FindAllStringSubmatchIndex(re, s) == FindFrom(re, s, 0)

----------------------------------------------------------------------------
(* AST nodes (package model)                                                *)

EditTypeAddition  == "addition"
EditTypeDeletion  == "deletion"
EditTypeComment   == "comment"
EditTypeHighlight == "highlight"

\* the operation names are Go strings: they are printed with %s
OperationMove == <<"m","o","v","e">>
OperationCopy == <<"c","o","p","y">>

TextNode(text) == [type |-> "TextNode", Text |-> text]
InlineEditNode(editType, content, editorID) ==
    [type |-> "InlineEditNode", EditType |-> editType, Content |-> content,
     EditorID |-> editorID]
StructuralSourceNode(operation, tag, blockContent) ==
    [type |-> "StructuralSourceNode", Operation |-> operation, Tag |-> tag,
     BlockContent |-> blockContent]
StructuralTargetNode(operation, tag) ==
    [type |-> "StructuralTargetNode", Operation |-> operation, Tag |-> tag]

----------------------------------------------------------------------------
(* Escape processing                                                        *)

BS == "\\"

unescapeInlineContent(content, editType) ==
    LET c1 == ReplaceAll(content, <<BS, BS>>, <<BS>>)
        c2 == ReplaceAll(c1, <<BS, "{">>, <<"{">>)
        c3 == ReplaceAll(c2, <<BS, "}">>, <<"}">>)
    IN  CASE editType = EditTypeAddition  -> ReplaceAll(c3, <<BS, "+">>, <<"+">>)
          [] editType = EditTypeDeletion  -> ReplaceAll(c3, <<BS, "-">>, <<"-">>)
          [] editType = EditTypeComment   -> ReplaceAll(c3, <<BS, "<">>, <<"<">>)
          [] editType = EditTypeHighlight -> ReplaceAll(c3, <<BS, "=">>, <<"=">>)
          [] OTHER -> c3

\* a variant of unescapeStructuralBlockContent that pads what it returns
unescapeStructuralBlockContent_Pads(content) ==
    ReplaceAll(ReplaceAll(content, <<BS, BS>>, <<BS>>), <<BS, "~">>, <<"~">>)
    \o <<" "," "," "," "," "," "," "," "," "," "," "," ">>

unescapeStructuralBlockContent(content) ==
    ReplaceAll(ReplaceAll(content, <<BS, BS>>, <<BS>>), <<BS, "~">>, <<"~">>)

----------------------------------------------------------------------------
(* ParseEditMLToNodes                                                       *)

genericMatch(startIndex, endIndex, node) ==
    [startIndex |-> startIndex, endIndex |-> endIndex, node |-> node]

RECURSIVE InlineMatches_NoEditorID(_, _, _)
\* a variant of InlineMatches that never reads the editor id group
InlineMatches_NoEditorID(ms, editType, input) ==
    IF ms = <<>> THEN <<>>
    ELSE <<genericMatch(Head(ms)[0], Head(ms)[1],
               InlineEditNode(editType,
                   unescapeInlineContent(Slice(input, Head(ms)[2], Head(ms)[3]), editType),
                   <<>>))>>
         \o InlineMatches_NoEditorID(Tail(ms), editType, input)

RECURSIVE InlineMatches(_, _, _)
\* steps 1-4, the loop over the matches ms of one inline kind
InlineMatches(ms, editType, input) ==
    IF ms = <<>> THEN <<>>
    ELSE <<genericMatch(Head(ms)[0], Head(ms)[1],
               InlineEditNode(editType,
                   unescapeInlineContent(Slice(input, Head(ms)[2], Head(ms)[3]), editType),
                   IF Head(ms)[4] # -1 /\ Head(ms)[5] # -1
                   THEN Slice(input, Head(ms)[4], Head(ms)[5])
                   ELSE <<>>))>>
         \o InlineMatches(Tail(ms), editType, input)

RECURSIVE SourceMatches_KeepsKeyword(_, _, _)
\* a variant of SourceMatches that stores the keyword as it was written
SourceMatches_KeepsKeyword(ms, operation, input) ==
    IF ms = <<>> THEN <<>>
    ELSE <<genericMatch(Head(ms)[0], Head(ms)[1],
               StructuralSourceNode(Slice(input, Head(ms)[2], Head(ms)[3]),
                   Slice(input, Head(ms)[6], Head(ms)[7]),
                   unescapeStructuralBlockContent(Slice(input, Head(ms)[4], Head(ms)[5]))))>>
         \o SourceMatches_KeepsKeyword(Tail(ms), operation, input)

RECURSIVE SourceMatches(_, _, _)
\* steps 5 and 7: the operation is normalized, whatever keyword was written
SourceMatches(ms, operation, input) ==
    IF ms = <<>> THEN <<>>
    ELSE <<genericMatch(Head(ms)[0], Head(ms)[1],
               StructuralSourceNode(operation, Slice(input, Head(ms)[6], Head(ms)[7]),
                   unescapeStructuralBlockContent(Slice(input, Head(ms)[4], Head(ms)[5]))))>>
         \o SourceMatches(Tail(ms), operation, input)

RECURSIVE TargetMatches(_, _, _)
\* steps 6 and 8
TargetMatches(ms, operation, input) ==
    IF ms = <<>> THEN <<>>
    ELSE <<genericMatch(Head(ms)[0], Head(ms)[1],
               StructuralTargetNode(operation, Slice(input, Head(ms)[4], Head(ms)[5])))>>
         \o TargetMatches(Tail(ms), operation, input)

\* allMatches in the order the eight searches append to it
CollectMatches(input) ==
    InlineMatches(FindAllStringSubmatchIndex(addRegex, input), EditTypeAddition, input)
    \o InlineMatches(FindAllStringSubmatchIndex(delRegex, input), EditTypeDeletion, input)
    \o InlineMatches(FindAllStringSubmatchIndex(commentRegex, input), EditTypeComment, input)
    \o InlineMatches(FindAllStringSubmatchIndex(highlightRegex, input), EditTypeHighlight, input)
    \o SourceMatches(FindAllStringSubmatchIndex(moveSourceRegex, input), OperationMove, input)
    \o TargetMatches(FindAllStringSubmatchIndex(moveTargetRegex, input), OperationMove, input)
    \o SourceMatches(FindAllStringSubmatchIndex(copySourceRegex, input), OperationCopy, input)
    \o TargetMatches(FindAllStringSubmatchIndex(copyTargetRegex, input), OperationCopy, input)

\* the less function given to sort.Slice
MatchLess(a, b) ==
    IF a.startIndex = b.startIndex THEN a.endIndex > b.endIndex
    ELSE a.startIndex < b.startIndex

RECURSIVE InsertSorted(_, _)
InsertSorted(sorted, x) ==
    IF sorted = <<>> THEN <<x>>
    ELSE IF MatchLess(x, Head(sorted)) THEN <<x>> \o sorted
    ELSE <<Head(sorted)>> \o InsertSorted(Tail(sorted), x)

\* a variant of SortMatches that leaves the matches in the order of the searches
SortMatches_Unsorted(ms) == ms

RECURSIVE SortMatches(_)
\* step 9, sort.Slice(allMatches, less): the order of elements that compare
\* equal (same start and same end) is the insertion order here
SortMatches(ms) ==
    IF ms = <<>> THEN <<>>
    ELSE InsertSorted(SortMatches(SubSeq(ms, 1, Len(ms) - 1)), ms[Len(ms)])

\* a variant of Overlaps that skips only a match that ends inside the last one
Overlaps_EndsInside(match, lastIndex) == match.endIndex <= lastIndex

\* a variant of Overlaps that never skips a match
Overlaps_Never(match, lastIndex) == FALSE

\* step 10, the test that skips a match: it starts before the last accepted end
Overlaps(match, lastIndex) == match.startIndex < lastIndex

RECURSIVE Interleave_NoTrailingText(_, _, _, _)
\* a variant of Interleave that forgets the text after the last match
Interleave_NoTrailingText(input, sorted, n, lastIndex) ==
    IF n > Len(sorted) THEN <<>>
    ELSE LET match == sorted[n]
         IN  IF Overlaps(match, lastIndex)
             THEN Interleave_NoTrailingText(input, sorted, n + 1, lastIndex)
             ELSE (IF match.startIndex > lastIndex
                   THEN <<genericMatch(lastIndex, match.startIndex,
                              TextNode(Slice(input, lastIndex, match.startIndex)))>>
                   ELSE <<>>)
                  \o <<match>>
                  \o Interleave_NoTrailingText(input, sorted, n + 1, match.endIndex)

RECURSIVE Interleave(_, _, _, _)
\* step 10 and the trailing text: the nodes, each with the span it covers
Interleave(input, sorted, n, lastIndex) ==
    IF n > Len(sorted)
    THEN IF lastIndex < Len(input)
         THEN <<genericMatch(lastIndex, Len(input),
                             TextNode(Slice(input, lastIndex, Len(input))))>>
         ELSE <<>>
    ELSE LET match == sorted[n]
         IN  IF Overlaps(match, lastIndex)
             THEN Interleave(input, sorted, n + 1, lastIndex)
             ELSE (IF match.startIndex > lastIndex
                   THEN <<genericMatch(lastIndex, match.startIndex,
                              TextNode(Slice(input, lastIndex, match.startIndex)))>>
                   ELSE <<>>)
                  \o <<match>>
                  \o Interleave(input, sorted, n + 1, match.endIndex)

\* the nodes ParseEditMLToNodes returns, each with its span in the input
PlaceNodes(input) == Interleave(input, SortMatches(CollectMatches(input)), 1, 0)

RECURSIVE NodesOf(_)
NodesOf(pl) == IF pl = <<>> THEN <<>> ELSE <<Head(pl).node>> \o NodesOf(Tail(pl))

\* the local `issues` is never appended to, so the error is always nil
ParseEditMLToNodes(input) == [nodes |-> NodesOf(PlaceNodes(input)), err |-> "nil"]

----------------------------------------------------------------------------
(* SkipDebugComments and the public Parse                                   *)

NL == "\n"
CR == "\r"

RECURSIVE IndexOf(_, _, _)
\* the least 1-based position >= p of character c in s, or 0
IndexOf(s, c, p) ==
    IF p > Len(s) THEN 0 ELSE IF s[p] = c THEN p ELSE IndexOf(s, c, p + 1)

dropCR(line) ==
    IF Len(line) > 0 /\ line[Len(line)] = CR THEN SubSeq(line, 1, Len(line) - 1)
    ELSE line

RECURSIVE ScanLines(_)
\* the tokens of bufio.Scanner with its default split function: each line
\* without its end-of-line marker, and a last line that has no newline if it is
\* not empty.  (Every modelled line is far below bufio.MaxScanTokenSize.)
ScanLines(s) ==
    IF s = <<>> THEN <<>>
    ELSE LET p == IndexOf(s, NL, 1)
         IN  IF p = 0 THEN <<dropCR(s)>>
             ELSE <<dropCR(SubSeq(s, 1, p - 1))>> \o ScanLines(SubSeq(s, p + 1, Len(s)))

isCommentLine(line) ==
    /\ HasPrefixAt(line, 0, <<"%", "%">>)
    /\ \/ Len(line) = 2
       \/ ~IsAlnum(line[3])

RECURSIVE Join(_, _)
\* strings.Join(lines, sep)
Join(lines, sep) ==
    IF lines = <<>> THEN <<>>
    ELSE IF Len(lines) = 1 THEN lines[1]
    ELSE lines[1] \o sep \o Join(Tail(lines), sep)

SkipDebugComments(input) ==
    Join(SelectSeq(ScanLines(input), LAMBDA line : ~isCommentLine(line)), <<NL>>)

SeverityError   == "error"
SeverityWarning == "warning"

\* the one Issue an API call makes of a critical error
Issue(prefix, err) ==
    [Message |-> <<prefix, err>>, Line |-> 0, Column |-> 0, Severity |-> SeverityError]

----------------------------------------------------------------------------
(* TransformToCleanView                                                     *)

NilErr == [msg |-> "nil", tag |-> <<>>]
DuplicateSourceTag(tag) == [msg |-> "structural conflict: duplicate source tag", tag |-> tag]
MultipleMoveTargets(tag) == [msg |-> "structural conflict: multiple move targets for tag", tag |-> tag]

ErrorMark              == <<"(","E","R","R","O","R","_">>
ErrParsingContent      == <<" ","(","E","R","R","O","R","_","P","A","R","S","I","N","G","_","C","O","N","T","E","N","T",")">>
ErrTransformingContent == <<" ","(","E","R","R","O","R","_","T","R","A","N","S","F","O","R","M","I","N","G","_","C","O","N","T","E","N","T",")">>
ErrSourceNotFound      == <<" ","(","E","R","R","O","R","_","S","O","U","R","C","E","_","N","O","T","_","F","O","U","N","D","_","I","N","_","M","A","P",")">>
ErrOperationMismatch   == <<" ","(","E","R","R","O","R","_","O","P","E","R","A","T","I","O","N","_","M","I","S","M","A","T","C","H","_","W","I","T","H","_","S","O","U","R","C","E"," ">>

\* fmt.Sprintf("{%s~%s~%s}", n.Operation, n.BlockContent, n.Tag)
LiteralSource(n) ==
    <<"{">> \o n.Operation \o <<"~">> \o n.BlockContent \o <<"~">> \o n.Tag \o <<"}">>

\* fmt.Sprintf("{%s:%s}", n.Operation, n.Tag)
LiteralTarget(n) == <<"{">> \o n.Operation \o <<":">> \o n.Tag \o <<"}">>

\* fmt.Sprintf("{%s~%s (ERROR_..._CONTENT)~%s}", ...)
BlockErrorMarker(n, what) ==
    <<"{">> \o n.Operation \o <<"~">> \o n.BlockContent \o what \o <<"~">> \o n.Tag \o <<"}">>

\* fmt.Sprintf("{%s:%s (ERROR_OPERATION_MISMATCH_WITH_SOURCE %s)}", ...)
MismatchMarker(n, srcOperation) ==
    <<"{">> \o n.Operation \o <<":">> \o n.Tag \o ErrOperationMismatch
            \o srcOperation \o <<")", "}">>

\* a Go map is a function on its set of keys; m[k] of a missing key is the zero value
HasKey(m, k) == k \in DOMAIN m
Put(m, k, v) == [x \in DOMAIN m \cup {k} |-> IF x = k THEN v ELSE m[x]]
CountOf(m, k) == IF HasKey(m, k) THEN m[k] ELSE 0
ListOf(m, k) == IF HasKey(m, k) THEN m[k] ELSE <<>>

\* a variant of EmptyIndex that starts from a counter left by another call
EmptyIndex_Shared == [allSources |-> <<>>, allTargets |-> <<>>,
                      moveTargetCounts |-> Put(<<>>, <<"a">>, 1), err |-> NilErr]

EmptyIndex == [allSources |-> <<>>, allTargets |-> <<>>, moveTargetCounts |-> <<>>,
               err |-> NilErr]

IsSource(n) == n.type = "StructuralSourceNode"
IsTarget(n) == n.type = "StructuralTargetNode"

\* a variant of SourceTagSeen that only sees a source of the same operation
SourceTagSeen_SameOperation(allSources, srcNode) ==
    /\ HasKey(allSources, srcNode.Tag)
    /\ allSources[srcNode.Tag].node.Operation = srcNode.Operation

\* the duplicate-source test of the first pass
SourceTagSeen(allSources, srcNode) == HasKey(allSources, srcNode.Tag)

\* a variant of TooManyMoveTargets that tolerates a second target
TooManyMoveTargets_OffByOne(count) == count > 2

\* the multiple-move-target test of the first pass, on the incremented counter
TooManyMoveTargets(count) == count > 1

RECURSIVE TransformToCleanView(_)
RECURSIVE CleanViewRun(_)

\* a variant of PreTransform that keeps the block content as it stands
PreTransform_RawContent(srcNode) ==
    LET parsed(sub) ==
            IF sub.err # "nil" THEN BlockErrorMarker(srcNode, ErrParsingContent)
            ELSE srcNode.BlockContent
    IN  parsed(ParseEditMLToNodes(srcNode.BlockContent))

\* a variant of PreTransform that keeps the (empty) string of a failed
\* recursive call instead of the error marker
PreTransform_DropsError(srcNode) ==
    LET transformed(r) == r.out
        parsed(sub) ==
            IF sub.err # "nil" THEN BlockErrorMarker(srcNode, ErrParsingContent)
            ELSE transformed(TransformToCleanView(sub.nodes))
    IN  parsed(ParseEditMLToNodes(srcNode.BlockContent))

\* the pre-transformed block of a source: its BlockContent re-parsed and
\* transformed by a recursive call, or an error marker
PreTransform(srcNode) ==
    LET transformed(r) ==
            IF r.err # NilErr THEN BlockErrorMarker(srcNode, ErrTransformingContent)
            ELSE r.out
        parsed(sub) ==
            IF sub.err # "nil" THEN BlockErrorMarker(srcNode, ErrParsingContent)
            ELSE transformed(TransformToCleanView(sub.nodes))
    IN  parsed(ParseEditMLToNodes(srcNode.BlockContent))

RECURSIVE FirstPass(_, _, _)
\* Step 1, the first loop: it returns at the first conflict
FirstPass(ns, i, st) ==
    IF i > Len(ns) THEN st
    ELSE LET node == ns[i]
         IN  IF IsSource(node)
             THEN IF SourceTagSeen(st.allSources, node)
                  THEN [st EXCEPT !.err = DuplicateSourceTag(node.Tag)]
                  ELSE FirstPass(ns, i + 1,
                         [st EXCEPT !.allSources =
                             Put(@, node.Tag,
                                 [node |-> node, transformedBlock |-> PreTransform(node),
                                  isUsedAsMove |-> FALSE])])
             ELSE IF IsTarget(node)
             THEN LET targets == Append(ListOf(st.allTargets, node.Tag), [node |-> node])
                      st1 == [st EXCEPT !.allTargets = Put(@, node.Tag, targets)]
                  IN  IF node.Operation = OperationMove
                      THEN LET c == CountOf(st.moveTargetCounts, node.Tag) + 1
                               st2 == [st1 EXCEPT !.moveTargetCounts = Put(@, node.Tag, c)]
                           IN  IF TooManyMoveTargets(c)
                               THEN [st2 EXCEPT !.err = MultipleMoveTargets(node.Tag)]
                               ELSE FirstPass(ns, i + 1, st2)
                      ELSE FirstPass(ns, i + 1, st1)
             ELSE FirstPass(ns, i + 1, st)

\* a variant of UsedAsMove with the counter compared the wrong way
UsedAsMove_WrongCount(st, tag) ==
    /\ st.allSources[tag].node.Operation = OperationMove
    /\ HasKey(st.allTargets, tag) /\ Len(st.allTargets[tag]) > 0
    /\ \E k \in 1..Len(st.allTargets[tag]) :
           st.allTargets[tag][k].node.Operation = OperationMove
    /\ CountOf(st.moveTargetCounts, tag) > 1

\* a variant of UsedAsMove that is content with a target of any operation
UsedAsMove_AnyTarget(st, tag) ==
    /\ st.allSources[tag].node.Operation = OperationMove
    /\ HasKey(st.allTargets, tag) /\ Len(st.allTargets[tag]) > 0

\* the condition under which the second loop sets isUsedAsMove
UsedAsMove(st, tag) ==
    /\ st.allSources[tag].node.Operation = OperationMove
    /\ HasKey(st.allTargets, tag) /\ Len(st.allTargets[tag]) > 0
    /\ \E k \in 1..Len(st.allTargets[tag]) :
           st.allTargets[tag][k].node.Operation = OperationMove
    /\ CountOf(st.moveTargetCounts, tag) = 1

\* a variant of MarkMoves that marks no source
MarkMoves_MarksNone(st) == st

\* Step 1, the second loop
MarkMoves(st) ==
    [st EXCEPT !.allSources =
        [tag \in DOMAIN st.allSources |->
            IF UsedAsMove(st, tag) THEN [st.allSources[tag] EXCEPT !.isUsedAsMove = TRUE]
            ELSE st.allSources[tag]]]

HasError(transformedBlock) == Contains(transformedBlock, ErrorMark)

\* a variant of RenderInline that writes the content of a deletion
RenderInline_KeepsDeletion(n) ==
    CASE n.EditType = EditTypeAddition  -> n.Content
      [] n.EditType = EditTypeDeletion  -> n.Content
      [] n.EditType = EditTypeComment   -> <<>>
      [] n.EditType = EditTypeHighlight -> n.Content
      [] OTHER -> <<>>

\* case model.InlineEditNode
RenderInline(n) ==
    CASE n.EditType = EditTypeAddition  -> n.Content
      [] n.EditType = EditTypeDeletion  -> <<>>
      [] n.EditType = EditTypeComment   -> <<>>
      [] n.EditType = EditTypeHighlight -> n.Content
      [] OTHER -> <<>>

\* a variant of isValidCopyOperation that looks for a move target
isValidCopyOperation_WrongOp(st, n) ==
    /\ HasKey(st.allTargets, n.Tag)
    /\ \E k \in 1..Len(st.allTargets[n.Tag]) :
           st.allTargets[n.Tag][k].node.Operation = OperationMove

\* a variant of isValidCopyOperation that accepts a target of any operation
isValidCopyOperation_AnyTarget(st, n) ==
    /\ HasKey(st.allTargets, n.Tag)
    /\ Len(st.allTargets[n.Tag]) > 0

\* a copy source's test for a target that is also a copy
isValidCopyOperation(st, n) ==
    /\ HasKey(st.allTargets, n.Tag)
    /\ \E k \in 1..Len(st.allTargets[n.Tag]) :
           st.allTargets[n.Tag][k].node.Operation = OperationCopy

\* case model.StructuralSourceNode
RenderSource(n, st) ==
    IF ~HasKey(st.allSources, n.Tag)
    THEN <<"{">> \o n.Operation \o <<"~">> \o n.BlockContent \o <<"~">> \o n.Tag
                 \o ErrSourceNotFound \o <<"}">>
    ELSE LET srcDetail == st.allSources[n.Tag]
         IN  IF n.Operation = OperationMove
             THEN IF ~srcDetail.isUsedAsMove
                  THEN IF HasError(srcDetail.transformedBlock)
                       THEN srcDetail.transformedBlock
                       ELSE LiteralSource(n)
                  ELSE <<>>
             ELSE IF n.Operation = OperationCopy
             THEN IF ~isValidCopyOperation(st, n) \/ HasError(srcDetail.transformedBlock)
                  THEN IF HasError(srcDetail.transformedBlock)
                       THEN srcDetail.transformedBlock
                       ELSE LiteralSource(n)
                  ELSE srcDetail.transformedBlock
             ELSE <<>>

\* case model.StructuralTargetNode
RenderTarget(n, st) ==
    IF ~HasKey(st.allSources, n.Tag) THEN LiteralTarget(n)
    ELSE LET srcDetail == st.allSources[n.Tag]
         IN  IF n.Operation # srcDetail.node.Operation
             THEN MismatchMarker(n, srcDetail.node.Operation)
             ELSE IF HasError(srcDetail.transformedBlock)
             THEN srcDetail.transformedBlock
             ELSE IF n.Operation = OperationMove
             THEN IF srcDetail.isUsedAsMove THEN srcDetail.transformedBlock
                  ELSE LiteralTarget(n)
             ELSE IF n.Operation = OperationCopy
             THEN srcDetail.transformedBlock
             ELSE <<>>

\* Step 2: what the loop body writes to the string builder for one node
RenderNode(n, st) ==
    CASE n.type = "TextNode"             -> n.Text
      [] n.type = "InlineEditNode"       -> RenderInline(n)
      [] n.type = "StructuralSourceNode" -> RenderSource(n, st)
      [] n.type = "StructuralTargetNode" -> RenderTarget(n, st)

RECURSIVE RenderFrom(_, _, _)
\* Step 2, the loop: the string written for each node from the i-th on
RenderFrom(ns, i, st) ==
    IF i > Len(ns) THEN <<>>
    ELSE <<RenderNode(ns[i], st)>> \o RenderFrom(ns, i + 1, st)

\* one call of TransformToCleanView: the index it built, its error, and the
\* string written for each node (nothing is written when the first pass fails)
CleanViewRun(ns) ==
    LET rendered(st) == [index |-> st, err |-> NilErr, writes |-> RenderFrom(ns, 1, st)]
        indexed(st1) ==
            IF st1.err # NilErr
            THEN [index |-> st1, err |-> st1.err, writes |-> <<>>]
            ELSE rendered(MarkMoves(st1))
    IN  indexed(FirstPass(ns, 1, EmptyIndex))

\* the (string, error) it returns
TransformToCleanView(ns) ==
    LET returned(r) == [out |-> Flatten(r.writes), err |-> r.err]
    IN  returned(CleanViewRun(ns))

----------------------------------------------------------------------------
(* The API calls as actions                                                 *)

\* Parse(inputText): strip the debug comments, then match
Parse ==
    /\ pc = "input"
    /\ \E textWithoutDebugComments \in {SkipDebugComments(inputText)} :
          /\ stripped' = textWithoutDebugComments
          /\ placed' = PlaceNodes(textWithoutDebugComments)
          /\ \E parsed \in {ParseEditMLToNodes(textWithoutDebugComments)} :
                /\ nodes' = parsed.nodes
                /\ issues' = IF parsed.err # "nil"
                             THEN <<Issue("Parsing error", parsed.err)>>
                             ELSE <<>>
    /\ pc' = "parsed"
    /\ UNCHANGED <<inputText, written, outputText>>

\* TransformCleanView(nodes)
TransformCleanView ==
    /\ pc \in {"nodes", "parsed"}
    /\ \E r \in {CleanViewRun(nodes)} :
          /\ written' = r.writes
          /\ outputText' = Flatten(r.writes)
          /\ issues' = IF r.err # NilErr THEN <<Issue("Transformation error", r.err)>>
                       ELSE <<>>
    /\ pc' = "done"
    /\ UNCHANGED <<inputText, stripped, placed, nodes>>

----------------------------------------------------------------------------
(* Specification Spec: a caller builds a node sequence and calls            *)
(* TransformCleanView on it.                                                *)

MaxNodes == 3

TagA == <<"a">>
TagB == <<"b">>

\* block contents: plain text; inline markup; two move targets of one tag,
\* on which the nested transformation fails
BlockPlain  == <<"k">>
BlockInline == <<"{","+","p","+","}","{","-","q","-","}">>
BlockBad    == <<"{","m",":","z","}","{","m",":","z","}">>

NodeUniverse ==
    {TextNode(<<"x">>)}
    \cup {InlineEditNode(t, <<"i">>, <<>>) :
            t \in {EditTypeAddition, EditTypeDeletion, EditTypeComment, EditTypeHighlight}}
    \cup {StructuralSourceNode(op, TagA, b) :
            op \in {OperationMove, OperationCopy}, b \in {BlockPlain, BlockInline, BlockBad}}
    \cup {StructuralSourceNode(op, TagB, BlockPlain) : op \in {OperationMove, OperationCopy}}
    \cup {StructuralTargetNode(op, tag) :
            op \in {OperationMove, OperationCopy}, tag \in {TagA, TagB}}

Init ==
    /\ pc = "nodes"
    /\ inputText = <<>>
    /\ stripped = <<>>
    /\ placed = <<>>
    /\ nodes = <<>>
    /\ written = <<>>
    /\ outputText = <<>>
    /\ issues = <<>>

\* the caller appends a node to the sequence it is going to pass
AddNode(n) ==
    /\ pc = "nodes"
    /\ Len(nodes) < MaxNodes
    /\ nodes' = Append(nodes, n)
    /\ UNCHANGED <<pc, inputText, stripped, placed, written, outputText, issues>>

Next ==
    \/ \E n \in NodeUniverse : AddNode(n)
    \/ TransformCleanView

Spec == Init /\ [][Next]_vars

----------------------------------------------------------------------------
(* Specification SpecText: a caller writes a text, calls Parse on it and    *)
(* TransformCleanView on the nodes Parse returned.                          *)

MaxInputLen == 9

Pieces ==
    { <<"{","+">>, <<"+","}">>, <<"{","-">>, <<"-","}">>, <<"a">>,
      <<"{","m","~">>, <<"~","t","}">>, <<"{","m",":","t","}">>,
      <<"{","m","o","v","e",":","t","}">>, <<"{","c",":","t","}">>,
      <<BS,"~">> }

InitText ==
    /\ pc = "input"
    /\ inputText = <<>>
    /\ stripped = <<>>
    /\ placed = <<>>
    /\ nodes = <<>>
    /\ written = <<>>
    /\ outputText = <<>>
    /\ issues = <<>>

\* the caller appends a piece of text to the input
TypeText(w) ==
    /\ pc = "input"
    /\ Len(inputText) + Len(w) <= MaxInputLen
    /\ inputText' = inputText \o w
    /\ UNCHANGED <<pc, stripped, placed, nodes, written, outputText, issues>>

NextText ==
    \/ \E w \in Pieces : TypeText(w)
    \/ Parse
    \/ TransformCleanView

SpecText == InitText /\ [][NextText]_vars

----------------------------------------------------------------------------
(* Specification SpecComments: as SpecText, on texts with line breaks,      *)
(* carriage returns and lines that begin with %%.                           *)

MaxCommentInputLen == 6

CommentPieces ==
    { <<"%","%">>, <<" ">>, <<"a">>, <<NL>>, <<CR>>, <<"{","+","a","+","}">> }

TypeCommentText(w) ==
    /\ pc = "input"
    /\ Len(inputText) + Len(w) <= MaxCommentInputLen
    /\ inputText' = inputText \o w
    /\ UNCHANGED <<pc, stripped, placed, nodes, written, outputText, issues>>

NextComments ==
    \/ \E w \in CommentPieces : TypeCommentText(w)
    \/ Parse
    \/ TransformCleanView

SpecComments == InitText /\ [][NextComments]_vars

----------------------------------------------------------------------------
(* Specification SpecEscape: the two unescape functions applied to a raw    *)
(* captured content, as the matcher applies them when it builds a node.     *)

MaxRawLen == 4

EscapeAlphabet == {BS, "{", "+", "~", "a"}

InitRaw ==
    /\ pc = "raw"
    /\ inputText = <<>>
    /\ stripped = <<>>
    /\ placed = <<>>
    /\ nodes = <<>>
    /\ written = <<>>
    /\ outputText = <<>>
    /\ issues = <<>>

\* one more character of the captured content
TypeRaw(ch) ==
    /\ pc = "raw"
    /\ Len(inputText) < MaxRawLen
    /\ inputText' = Append(inputText, ch)
    /\ UNCHANGED <<pc, stripped, placed, nodes, written, outputText, issues>>

\* the node an inline match with this content gives
UnescapeInline(editType) ==
    /\ pc = "raw"
    /\ nodes' = <<InlineEditNode(editType, unescapeInlineContent(inputText, editType), <<>>)>>
    /\ pc' = "decoded"
    /\ UNCHANGED <<inputText, stripped, placed, written, outputText, issues>>

\* the node a source match with this block content gives
UnescapeBlock ==
    /\ pc = "raw"
    /\ nodes' = <<StructuralSourceNode(OperationMove, TagA,
                                       unescapeStructuralBlockContent(inputText))>>
    /\ pc' = "decoded"
    /\ UNCHANGED <<inputText, stripped, placed, written, outputText, issues>>

NextEscape ==
    \/ \E ch \in EscapeAlphabet : TypeRaw(ch)
    \/ \E editType \in {EditTypeAddition, EditTypeDeletion} : UnescapeInline(editType)
    \/ UnescapeBlock

SpecEscape == InitRaw /\ [][NextEscape]_vars

----------------------------------------------------------------------------
(* Specification SpecInline: as SpecText, on texts with the four inline     *)
(* kinds and editor ids.                                                    *)

MaxInlineInputLen == 8

InlinePieces ==
    { <<"x">>,
      <<"{","+">>, <<"{","-">>, <<"{",">">>, <<"{","=">>,
      <<"+","}">>, <<"-","}">>, <<"<","}">>, <<"=","}">>,
      <<"+","e","d","}">>, <<"<","a","b","c","d","e","f","}">> }

TypeInlineText(w) ==
    /\ pc = "input"
    /\ Len(inputText) + Len(w) <= MaxInlineInputLen
    /\ inputText' = inputText \o w
    /\ UNCHANGED <<pc, stripped, placed, nodes, written, outputText, issues>>

NextInline ==
    \/ \E w \in InlinePieces : TypeInlineText(w)
    \/ Parse
    \/ TransformCleanView

SpecInline == InitText /\ [][NextInline]_vars

----------------------------------------------------------------------------
(* Specification SpecEscaped: as SpecText, on texts with backslashes        *)
(* before the delimiters of an addition and of a move source.               *)

MaxEscapedInputLen == 7

EscapedPieces ==
    { <<BS>>, <<"a">>, <<"{","+">>, <<"+","}">>, <<"{","m","~">>, <<"~","t","}">> }

TypeEscapedText(w) ==
    /\ pc = "input"
    /\ Len(inputText) + Len(w) <= MaxEscapedInputLen
    /\ inputText' = inputText \o w
    /\ UNCHANGED <<pc, stripped, placed, nodes, written, outputText, issues>>

NextEscaped ==
    \/ \E w \in EscapedPieces : TypeEscapedText(w)
    \/ Parse
    \/ TransformCleanView

SpecEscaped == InitText /\ [][NextEscaped]_vars

----------------------------------------------------------------------------
(* Specification SpecNest: as SpecText, on texts with additions and         *)
(* deletions written inside one another.                                    *)

MaxNestInputLen == 15

\* the opener and the closer of an addition, a deletion, and a deletion whose
\* content is the opener of an addition
NestPieces ==
    { <<"{","+">>, <<"+","}">>, <<"{","-","a","-","}">>, <<"{","-","{","+","-","}">> }

TypeNestText(w) ==
    /\ pc = "input"
    /\ Len(inputText) + Len(w) <= MaxNestInputLen
    /\ inputText' = inputText \o w
    /\ UNCHANGED <<pc, stripped, placed, nodes, written, outputText, issues>>

NextNest ==
    \/ \E w \in NestPieces : TypeNestText(w)
    \/ Parse
    \/ TransformCleanView

SpecNest == InitText /\ [][NextNest]_vars

----------------------------------------------------------------------------
(* Specification SpecShort: as SpecText, on texts made of sources and       *)
(* targets of one tag written with each of the keyword forms.               *)

MaxShortInputLen == 18

Keywords == {kwMove, kwMv, kwM, kwCopy, kwCp, kwC}

ShortPieces ==
    {<<"{">> \o kw \o <<"~","k","~","t","}">> : kw \in Keywords}
    \cup {<<"{">> \o kw \o <<":","t","}">> : kw \in Keywords}

TypeShortText(w) ==
    /\ pc = "input"
    /\ Len(inputText) + Len(w) <= MaxShortInputLen
    /\ inputText' = inputText \o w
    /\ UNCHANGED <<pc, stripped, placed, nodes, written, outputText, issues>>

NextShort ==
    \/ \E w \in ShortPieces : TypeShortText(w)
    \/ Parse
    \/ TransformCleanView

SpecShort == InitText /\ [][NextShort]_vars

----------------------------------------------------------------------------
(* Specification SpecBlocks: a caller builds a node sequence whose sources  *)
(* carry block contents with markup of every kind, and calls                *)
(* TransformCleanView on it.                                                *)

MaxBlockNodes == 2

\* block contents: a highlight and a comment; the text of the error mark; a
\* Move target of the tag of the enclosing document; a source and its
\* target; a source written around a source with escaped tildes
BlockMarked    == <<"{","=","h","=","}","{",">","c","<","}">>
BlockErrorText == <<"(","E","R","R","O","R","_">>
BlockTarget    == <<"{","m",":","a","}">>
BlockNested    == <<"{","m","~","k","~","b","}","{","m",":","b","}">>
BlockEscaped   == <<"{","m","~","{","m",BS,"~","k",BS,"~","b","}","~","a","}">>

BlockUniverse ==
    {TextNode(<<"x">>)}
    \cup {StructuralSourceNode(op, TagA, b) :
            op \in {OperationMove, OperationCopy},
            b \in {BlockMarked, BlockInline, BlockErrorText, BlockTarget, BlockNested,
                   BlockEscaped}}
    \cup {StructuralSourceNode(op, TagB, BlockTarget) : op \in {OperationMove, OperationCopy}}
    \cup {StructuralTargetNode(op, tag) :
            op \in {OperationMove, OperationCopy}, tag \in {TagA, TagB}}

\* the caller appends a node to the sequence it is going to pass
AddBlockNode(n) ==
    /\ pc = "nodes"
    /\ Len(nodes) < MaxBlockNodes
    /\ nodes' = Append(nodes, n)
    /\ UNCHANGED <<pc, inputText, stripped, placed, written, outputText, issues>>

NextBlocks ==
    \/ \E n \in BlockUniverse : AddBlockNode(n)
    \/ TransformCleanView

SpecBlocks == Init /\ [][NextBlocks]_vars

----------------------------------------------------------------------------
(* Specification SpecLongID: as SpecText, on texts with an addition         *)
(* followed by editor ids of up to six and more characters.                 *)

MaxLongIDInputLen == 11

LongIDPieces ==
    { <<"{","+","x","+">>, <<"a","b","c","d","e">>, <<"f">>, <<"}">> }

TypeLongIDText(w) ==
    /\ pc = "input"
    /\ Len(inputText) + Len(w) <= MaxLongIDInputLen
    /\ inputText' = inputText \o w
    /\ UNCHANGED <<pc, stripped, placed, nodes, written, outputText, issues>>

NextLongID ==
    \/ \E w \in LongIDPieces : TypeLongIDText(w)
    \/ Parse
    \/ TransformCleanView

SpecLongID == InitText /\ [][NextLongID]_vars

----------------------------------------------------------------------------
(* Specification SpecInBlock: as SpecText, on texts with structural markup *)
(* written inside the block of a source, plainly and with escaped tildes.   *)

MaxInBlockInputLen == 15

InBlockPieces ==
    { <<"{","m","~">>, <<"~","a","}">>, <<"~","b","}">>, <<"{","m",":","b","}">>, <<"k">>,
      <<"{","m",BS,"~","k",BS,"~","b","}">> }

TypeInBlockText(w) ==
    /\ pc = "input"
    /\ Len(inputText) + Len(w) <= MaxInBlockInputLen
    /\ inputText' = inputText \o w
    /\ UNCHANGED <<pc, stripped, placed, nodes, written, outputText, issues>>

NextInBlock ==
    \/ \E w \in InBlockPieces : TypeInBlockText(w)
    \/ Parse
    \/ TransformCleanView

SpecInBlock == InitText /\ [][NextInBlock]_vars

----------------------------------------------------------------------------
(* Properties                                                               *)

Done == pc = "done"
Failed == issues # <<>>

IsStructural(n) == IsSource(n) \/ IsTarget(n)

\* the node sequence without its j-th node
RemoveAt(seq, j) == SubSeq(seq, 1, j - 1) \o SubSeq(seq, j + 1, Len(seq))

\* the substring of the matched text that node i of `placed` covers
OriginalSpan(i) == Slice(stripped, placed[i].startIndex, placed[i].endIndex)

\* two sources of one tag / two Move targets of one tag in the node sequence
DupSourceTag ==
    \E i, j \in 1..Len(nodes) :
        i < j /\ IsSource(nodes[i]) /\ IsSource(nodes[j]) /\ nodes[i].Tag = nodes[j].Tag
TwoMoveTargets ==
    \E i, j \in 1..Len(nodes) :
        /\ i < j /\ IsTarget(nodes[i]) /\ IsTarget(nodes[j])
        /\ nodes[i].Tag = nodes[j].Tag
        /\ nodes[i].Operation = OperationMove /\ nodes[j].Operation = OperationMove

\* the positions of the targets of tag t with operation op
TargetsOf(t, op) ==
    {j \in 1..Len(nodes) : IsTarget(nodes[j]) /\ nodes[j].Tag = t /\ nodes[j].Operation = op}

\* the Clean View of a source's block content parsed as a document of its own
BlockRendering(src) == TransformToCleanView(ParseEditMLToNodes(src.BlockContent).nodes)

\* target j names a tag that has a source of the other operation
Mismatched(j) ==
    /\ IsTarget(nodes[j])
    /\ \E i \in 1..Len(nodes) :
           IsSource(nodes[i]) /\ nodes[i].Tag = nodes[j].Tag
           /\ nodes[i].Operation # nodes[j].Operation

RECURSIVE PlainConcat(_)
\* text, additions and highlights concatenated left to right
PlainConcat(ns) ==
    IF ns = <<>> THEN <<>>
    ELSE LET n == Head(ns)
         IN  (IF n.type = "TextNode" THEN n.Text
              ELSE IF n.type = "InlineEditNode"
                      /\ n.EditType \in {EditTypeAddition, EditTypeHighlight}
                   THEN n.Content
              ELSE <<>>)
             \o PlainConcat(Tail(ns))

\* C1: a node sequence without structural nodes renders as the concatenation of
\* its Text texts and its Addition and Highlight contents, Deletions and
\* Comments contributing nothing, and the issue list is empty.
C1_InlineRendering ==
    (Done /\ \A i \in 1..Len(nodes) : ~IsStructural(nodes[i]))
        => (outputText = PlainConcat(nodes) /\ issues = <<>>)

C1_Witness ==
    /\ Done
    /\ nodes = <<TextNode(<<"x">>), InlineEditNode(EditTypeAddition, <<"i">>, <<>>),
                 InlineEditNode(EditTypeDeletion, <<"i">>, <<>>)>>
    /\ outputText = <<"x", "i">>

\* C2: when two StructuralSource nodes carry the same tag, whatever their
\* operations, the call fails: empty output, exactly one issue, of severity
\* error, and nothing was written to the output.
C2_DuplicateSourceFails ==
    (Done /\ DupSourceTag)
        => /\ outputText = <<>>
           /\ written = <<>>
           /\ Len(issues) = 1
           /\ issues[1].Severity = SeverityError

C2_Witness ==
    /\ Done
    /\ nodes = <<TextNode(<<"x">>), StructuralSourceNode(OperationMove, TagA, BlockPlain),
                 StructuralSourceNode(OperationCopy, TagA, BlockInline)>>
    /\ Len(issues) = 1

C4_MoveConsumption ==
    (Done /\ ~Failed) =>
        \A i \in 1..Len(nodes) :
            (IsSource(nodes[i]) /\ nodes[i].Operation = OperationMove
             /\ Cardinality(TargetsOf(nodes[i].Tag, OperationMove)) = 1)
            => /\ written[i] = <<>>
               /\ \A j \in TargetsOf(nodes[i].Tag, OperationMove) :
                      BlockRendering(nodes[i]).err = NilErr
                          => written[j] = BlockRendering(nodes[i]).out
               /\ \A j \in TargetsOf(nodes[i].Tag, OperationCopy) :
                      written[j] = MismatchMarker(nodes[j], OperationMove)

C4_Witness ==
    /\ Done /\ ~Failed
    /\ nodes = <<StructuralTargetNode(OperationMove, TagA), TextNode(<<"x">>),
                 StructuralSourceNode(OperationMove, TagA, BlockInline)>>
    /\ written = <<(<<"p">>), (<<"x">>), (<<>>)>>

\* C5: when the call does not fail, a Copy source that has k >= 1 Copy targets
\* of its tag writes the block's rendered form at its own position and each of
\* the k targets writes it too: k+1 occurrences.
C5_CopyMultiplicity ==
    (Done /\ ~Failed) =>
        \A i \in 1..Len(nodes) :
            (IsSource(nodes[i]) /\ nodes[i].Operation = OperationCopy
             /\ TargetsOf(nodes[i].Tag, OperationCopy) # {}
             /\ BlockRendering(nodes[i]).err = NilErr)
            => \A j \in {i} \cup TargetsOf(nodes[i].Tag, OperationCopy) :
                   written[j] = BlockRendering(nodes[i]).out

C5_Witness ==
    /\ Done /\ ~Failed
    /\ nodes = <<StructuralTargetNode(OperationCopy, TagA),
                 StructuralSourceNode(OperationCopy, TagA, BlockInline),
                 StructuralTargetNode(OperationCopy, TagA)>>
    /\ outputText = <<"p", "p", "p">>

\* C6 (as claimed): a structural target whose tag has no source is written to
\* the Clean View with exactly the characters it has in the input.
C6_UnresolvedTargetVerbatim ==
    (Done /\ ~Failed /\ Len(placed) = Len(nodes)) =>
        \A j \in 1..Len(nodes) :
            (IsTarget(nodes[j])
             /\ ~\E i \in 1..Len(nodes) : IsSource(nodes[i]) /\ nodes[i].Tag = nodes[j].Tag)
            => written[j] = OriginalSpan(j)

\* the block content of source span i as written in the input: the span
\* without its `{keyword~` head and its `~tag}` tail
RawBlockContent(i) ==
    LET span == OriginalSpan(i)
    IN  SubSeq(span, IndexOf(span, "~", 1) + 1, Len(span) - Len(nodes[i].Tag) - 2)

\* C7 (as claimed): a Move source that is not consumed, and a Copy source with
\* no Copy target of its tag, is written as {op~rawBlockContent~tag} with the
\* block content exactly as written in the input.
C7_UnresolvedSourceVerbatim ==
    (Done /\ ~Failed /\ Len(placed) = Len(nodes)) =>
        \A i \in 1..Len(nodes) :
            (IsSource(nodes[i])
             /\ \/ nodes[i].Operation = OperationMove
                   /\ TargetsOf(nodes[i].Tag, OperationMove) = {}
                \/ nodes[i].Operation = OperationCopy
                   /\ TargetsOf(nodes[i].Tag, OperationCopy) = {})
            => written[i] = <<"{">> \o nodes[i].Operation \o <<"~">> \o RawBlockContent(i)
                                    \o <<"~">> \o nodes[i].Tag \o <<"}">>

\* what a mismatched target j must look like: the marker at its position, and
\* every other node written as in the run on the sequence without node j
MismatchLocalized(j) ==
    LET rest == CleanViewRun(RemoveAt(nodes, j))
    IN  /\ Len(written) = Len(nodes)
        /\ \E i \in 1..Len(nodes) :
               /\ IsSource(nodes[i]) /\ nodes[i].Tag = nodes[j].Tag
               /\ written[j] = MismatchMarker(nodes[j], nodes[i].Operation)
        /\ rest.err = NilErr
        /\ RemoveAt(written, j) = rest.writes

\* C8 (as claimed): whenever a target's tag has a source of the other
\* operation (the only source of that tag), the call does not abort, the
\* target's position holds the mismatch marker and every other node is rendered
\* as if the target were absent.
C8_MismatchNeverAborts ==
    (Done /\ ~DupSourceTag) => \A j \in 1..Len(nodes) : Mismatched(j) => (~Failed /\ MismatchLocalized(j))

\* C8 (amended): the same, in every call that does not fail with a fatal
\* conflict (two sources of one tag, two Move targets of one tag).
C8_MismatchLocalized ==
    (Done /\ ~Failed) => \A j \in 1..Len(nodes) : Mismatched(j) => MismatchLocalized(j)

C8_Witness ==
    /\ Done /\ ~Failed
    /\ nodes = <<StructuralSourceNode(OperationMove, TagA, BlockPlain),
                 StructuralTargetNode(OperationCopy, TagA),
                 StructuralTargetNode(OperationMove, TagA)>>
    /\ written[1] = <<>>
    /\ written[2] = MismatchMarker(nodes[2], OperationMove)
    /\ written[3] = <<"k">>

\* a localized, recoverable problem: a mismatched target, a target or source
\* whose tag stays unresolved, a block whose content failed to render
LocalizedProblem ==
    \E i \in 1..Len(nodes) :
        \/ Mismatched(i)
        \/ IsTarget(nodes[i])
           /\ ~\E k \in 1..Len(nodes) : IsSource(nodes[k]) /\ nodes[k].Tag = nodes[i].Tag
        \/ IsSource(nodes[i]) /\ TargetsOf(nodes[i].Tag, nodes[i].Operation) = {}
        \/ IsSource(nodes[i]) /\ BlockRendering(nodes[i]).err # NilErr

\* C9 (as claimed): every localized problem met during the call is reported in
\* the returned issue list.
C9_LocalizedProblemsReported ==
    (Done /\ LocalizedProblem) => issues # <<>>

\* C10: the nodes returned by the matcher tile its input: every span is
\* non-empty, the first starts at 0, each starts where the previous one ends and
\* the last ends at the end of the input; a Text node holds exactly the
\* characters of its span, no two Text nodes are adjacent, and the Text
\* contents and the markup spans concatenated in node order give the input.
C10_NodesTileInput ==
    (pc \in {"parsed", "done"}) =>
        /\ \A i \in 1..Len(placed) :
               /\ placed[i].startIndex < placed[i].endIndex
               /\ placed[i].startIndex = (IF i = 1 THEN 0 ELSE placed[i - 1].endIndex)
               /\ placed[i].node.type = "TextNode" => placed[i].node.Text = OriginalSpan(i)
               /\ (i > 1 /\ placed[i].node.type = "TextNode")
                      => placed[i - 1].node.type # "TextNode"
        /\ (IF placed = <<>> THEN 0 ELSE placed[Len(placed)].endIndex) = Len(stripped)
        /\ Flatten([i \in 1..Len(placed) |->
                       IF placed[i].node.type = "TextNode" THEN placed[i].node.Text
                       ELSE OriginalSpan(i)]) = stripped
        /\ nodes = NodesOf(placed)

\* an addition span is accepted, the deletion candidate that starts inside it
\* and ends after it is discarded, and the rest is text
C10_Witness ==
    /\ pc = "parsed"
    /\ stripped = <<"{","+","{","-","+","}","-","}">>
    /\ Len(placed) = 2
    /\ placed[1].node.type = "InlineEditNode" /\ placed[1].endIndex = 6
    /\ placed[2].node = TextNode(<<"-","}">>)

----------------------------------------------------------------------------
(* Parse: failure, debug comments                                           *)

Parsed == pc \in {"parsed", "done"}

\* no substring of the matched text matches any of the eight expressions
NoMarkup == CollectMatches(stripped) = <<>>

\* the comment test of section 3.2.1 on a line without its line break
IsDebugCommentLine(body) ==
    /\ Len(body) >= 2 /\ body[1] = "%" /\ body[2] = "%"
    /\ (Len(body) = 2 \/ ~IsAlnum(body[3]))

RECURSIVE RemoveCommentLines(_)
\* the text without its comment lines: every other line stays as it is, with
\* its line break
RemoveCommentLines(s) ==
    IF s = <<>> THEN <<>>
    ELSE LET p == IndexOf(s, NL, 1)
             line == IF p = 0 THEN s ELSE SubSeq(s, 1, p)
             body == IF p = 0 THEN s ELSE SubSeq(s, 1, p - 1)
             rest == IF p = 0 THEN <<>> ELSE SubSeq(s, p + 1, Len(s))
         IN  (IF IsDebugCommentLine(body) THEN <<>> ELSE line) \o RemoveCommentLines(rest)

\* C11 (as claimed): Parse returns no issue; when the input is not empty and
\* nothing in it matches, the result is one Text node that holds the whole
\* comment-stripped input (taken where the text the matcher received is the
\* input without its comment lines); for the empty input the result is empty.
C11_NoMatchIsOneTextNode ==
    Parsed =>
        /\ pc = "parsed" => issues = <<>>
        /\ (inputText # <<>> /\ NoMarkup /\ stripped = RemoveCommentLines(inputText))
               => nodes = <<TextNode(stripped)>>
        /\ inputText = <<>> => nodes = <<>>

\* C11 (amended): Parse returns no issue; when the comment-stripped input is
\* not empty and nothing in it matches, the result is one Text node that holds
\* it; when the comment-stripped input is empty, the result is empty.
C11_ParseNeverFails ==
    Parsed =>
        /\ pc = "parsed" => issues = <<>>
        /\ (stripped # <<>> /\ NoMarkup) => nodes = <<TextNode(stripped)>>
        /\ stripped = <<>> => nodes = <<>>

C11_Witness ==
    /\ pc = "parsed"
    /\ inputText = <<"%","%"," ",NL,"a"," ">>
    /\ stripped = <<"a"," ">>
    /\ nodes = <<TextNode(<<"a"," ">>)>>
    /\ issues = <<>>

\* C19 (as claimed): the text the matcher receives is the input without the
\* lines that begin with %% followed by the end of the line or by a
\* non-alphanumeric character; every other line, a %% line followed by an
\* alphanumeric character included, is kept unchanged, so an input without
\* comment line reaches the matcher unchanged.
C19_OnlyCommentLinesRemoved ==
    Parsed => stripped = RemoveCommentLines(inputText)

----------------------------------------------------------------------------
(* Escape decoding                                                          *)

\* the characters whose escape the code resolves in the context of a node
EscapableIn(n) ==
    IF n.type = "InlineEditNode"
    THEN {BS, "{", "}"} \cup
         (CASE n.EditType = EditTypeAddition  -> {"+"}
            [] n.EditType = EditTypeDeletion  -> {"-"}
            [] n.EditType = EditTypeComment   -> {"<"}
            [] n.EditType = EditTypeHighlight -> {"="})
    ELSE {BS, "~"}

RECURSIVE SinglePassDecode(_, _)
\* one left-to-right pass: a backslash and the escapable character after it
\* give that character, which is not read again
SinglePassDecode(s, escapable) ==
    IF s = <<>> THEN <<>>
    ELSE IF Len(s) >= 2 /\ s[1] = BS /\ s[2] \in escapable
         THEN <<s[2]>> \o SinglePassDecode(SubSeq(s, 3, Len(s)), escapable)
         ELSE <<s[1]>> \o SinglePassDecode(Tail(s), escapable)

DecodedContent(n) == IF n.type = "InlineEditNode" THEN n.Content ELSE n.BlockContent

\* C14 (as claimed): the decoded content is the result of one left-to-right
\* pass over the raw content in which each escape is consumed once: a
\* character produced by an escape is never read as part of another escape.
C14_NeverDoubleDecodes ==
    pc = "decoded" => DecodedContent(nodes[1]) = SinglePassDecode(inputText, EscapableIn(nodes[1]))

----------------------------------------------------------------------------
(* Inline markup                                                            *)

\* the four inline kinds: the expression of a kind and the EditType of its nodes
InlineKinds ==
    { [re |-> addRegex, editType |-> EditTypeAddition],
      [re |-> delRegex, editType |-> EditTypeDeletion],
      [re |-> commentRegex, editType |-> EditTypeComment],
      [re |-> highlightRegex, editType |-> EditTypeHighlight] }

\* no character of t is in the set cs
Without(t, cs) == \A p \in 1..Len(t) : t[p] \notin cs

\* literal text: no brace opens a span in it and nothing is escaped
IsLiteralText(t) == Without(t, {"{", BS})

IsEditorID(t) ==
    /\ Len(t) >= EditorIDMinLen /\ Len(t) <= EditorIDMaxLen
    /\ \A p \in 1..Len(t) : IsAlnum(t[p])

\* the text t is literal text, one well-formed span of kind k from offset s to
\* offset e whose closing operator is at offset c, and literal text
WellFormedInline(t, k, s, c, e) ==
    /\ HasPrefixAt(t, s, <<"{", k.re.open>>)
    /\ s + 2 <= c /\ c + 2 <= e /\ e <= Len(t)
    /\ t[c + 1] = k.re.close /\ t[e] = "}"
    /\ Without(Slice(t, s + 2, c), {BS, k.re.close})
    /\ (c + 2 = e \/ IsEditorID(Slice(t, c + 1, e - 1)))
    /\ IsLiteralText(Slice(t, 0, s)) /\ IsLiteralText(Slice(t, e, Len(t)))

TextNodes(t) == IF t = <<>> THEN <<>> ELSE <<TextNode(t)>>

\* C12: for an input made of literal text and one well-formed inline span
\* (content without escape and without closing operator, id absent or 1-5
\* alphanumeric characters) Parse returns the text before as a Text node, one
\* InlineEdit of the kind with Content = c and EditorID = id, the text after
\* as a Text node, and no issue.
C12_WellFormedInline ==
    pc = "parsed" =>
        \A k \in InlineKinds : \A s, c, e \in 0..Len(inputText) :
            WellFormedInline(inputText, k, s, c, e)
            => /\ nodes = TextNodes(Slice(inputText, 0, s))
                          \o <<InlineEditNode(k.editType, Slice(inputText, s + 2, c),
                                              Slice(inputText, c + 1, e - 1))>>
                          \o TextNodes(Slice(inputText, e, Len(inputText)))
               /\ issues = <<>>

C12_Witness ==
    /\ pc = "parsed"
    /\ inputText = <<"x","{","+","x","+","e","d","}">>
    /\ WellFormedInline(inputText, [re |-> addRegex, editType |-> EditTypeAddition], 1, 4, 8)
    /\ nodes = <<TextNode(<<"x">>), InlineEditNode(EditTypeAddition, <<"x">>, <<"e","d">>)>>

----------------------------------------------------------------------------
(* Determinism of the matcher                                               *)

Reverse(seq) == [n \in 1..Len(seq) |-> seq[Len(seq) + 1 - n]]

\* C13: no two candidates of one input start at the same offset, so the less
\* function orders any two of them strictly and the sorted sequence does not
\* depend on the sort algorithm; and the nodes are the same when the searches
\* contribute their candidates in the opposite order.
C13_Deterministic ==
    Parsed =>
        /\ \A i, j \in 1..Len(CollectMatches(stripped)) :
               i # j => /\ CollectMatches(stripped)[i].startIndex
                            # CollectMatches(stripped)[j].startIndex
                        /\ MatchLess(CollectMatches(stripped)[i], CollectMatches(stripped)[j])
                            # MatchLess(CollectMatches(stripped)[j], CollectMatches(stripped)[i])
        /\ placed = Interleave(stripped, SortMatches(Reverse(CollectMatches(stripped))), 1, 0)

\* the addition is found by the first search and the target by the sixth, and
\* the target comes first in the text
C13_Witness ==
    /\ pc = "parsed"
    /\ inputText = <<"{","m",":","t","}","{","+","+","}">>
    /\ Len(CollectMatches(stripped)) = 2
    /\ CollectMatches(stripped)[1].startIndex = 5
    /\ CollectMatches(stripped)[2].startIndex = 0
    /\ nodes = <<StructuralTargetNode(OperationMove, <<"t">>),
                 InlineEditNode(EditTypeAddition, <<>>, <<>>)>>

----------------------------------------------------------------------------
(* Escaped delimiters                                                       *)

RECURSIVE BackslashesBefore(_, _)
\* the number of consecutive backslashes that end right before offset p of t
BackslashesBefore(t, p) ==
    IF p >= 1 /\ t[p] = BS THEN 1 + BackslashesBefore(t, p - 1) ELSE 0

\* the character at offset p is preceded by a backslash that is not itself escaped
Escaped(t, p) == BackslashesBefore(t, p) % 2 = 1

\* the offset of the closing operator of the span of node n (`+` of `+id}`,
\* the second `~` of `~tag}`)
ClosingOperatorOffset(pl) ==
    IF pl.node.type = "InlineEditNode" THEN pl.endIndex - 2 - Len(pl.node.EditorID)
    ELSE pl.endIndex - 2 - Len(pl.node.Tag)

\* C15 (as claimed): no span of a node opens at an escaped `{`, and no inline
\* or source span closes at an escaped closing operator.
C15_EscapedDelimitersInert ==
    Parsed =>
        \A n \in 1..Len(placed) :
            placed[n].node.type # "TextNode"
            => /\ ~Escaped(stripped, placed[n].startIndex)
               /\ placed[n].node.type \in {"InlineEditNode", "StructuralSourceNode"}
                      => ~Escaped(stripped, ClosingOperatorOffset(placed[n]))

----------------------------------------------------------------------------
(* Nesting of inline edits                                                  *)

\* the end of the inline span that opens at offset p of t, or -1: at most one
\* kind opens at p
InlineSpanEnd(t, p) ==
    IF \E k \in InlineKinds : InlineMatchAt(k.re, t, p)[0] # -1
    THEN InlineMatchAt((CHOOSE k \in InlineKinds : InlineMatchAt(k.re, t, p)[0] # -1).re, t, p)[1]
    ELSE -1

RECURSIVE TopLevelAt(_, _, _)
\* reading t from offset p on, span after span and character after character,
\* one arrives at offset s outside of every span
TopLevelAt(t, p, s) ==
    IF p = s THEN TRUE
    ELSE IF p > s THEN FALSE
    ELSE IF InlineSpanEnd(t, p) # -1 THEN TopLevelAt(t, InlineSpanEnd(t, p), s)
    ELSE TopLevelAt(t, p + 1, s)

PlainOutside(t, from, to, close) == Without(Slice(t, from, to), {BS, "{", "}", close})

\* C16 (as claimed): when a complete inline span [i, j) of any kind, with
\* plain content, is written in the content of an inline edit [s, e) of the
\* text (an edit of kind ko that is not itself inside a span, whose content is
\* plain apart from the inner span and whose closing operator is at offset c),
\* Parse yields one InlineEdit for [s, e) whose Content is the text between
\* its delimiters, inner markup included, and no node for the inner span.
C16_InlineEditsDoNotNest ==
    Parsed =>
        \A ko \in InlineKinds : \A s \in 0..Len(stripped) :
            (HasPrefixAt(stripped, s, <<"{", ko.re.open>>) /\ TopLevelAt(stripped, 0, s))
            => \A ki \in InlineKinds : \A i \in (s + 2)..Len(stripped) :
                 (/\ HasPrefixAt(stripped, i, <<"{", ki.re.open>>)
                  /\ InlineMatchAt(ki.re, stripped, i)[0] # -1
                  /\ InlineMatchAt(ki.re, stripped, i)[3] > InlineMatchAt(ki.re, stripped, i)[2]
                  /\ PlainOutside(stripped, InlineMatchAt(ki.re, stripped, i)[2],
                                  InlineMatchAt(ki.re, stripped, i)[3], "{")
                  /\ PlainOutside(stripped, s + 2, i, ko.re.close))
                 => \A c \in InlineMatchAt(ki.re, stripped, i)[1]..Len(stripped) :
                      \A e \in (c + 2)..Len(stripped) :
                        (/\ stripped[c + 1] = ko.re.close /\ stripped[e] = "}"
                         /\ PlainOutside(stripped, InlineMatchAt(ki.re, stripped, i)[1], c,
                                         ko.re.close)
                         /\ (c + 2 = e \/ IsEditorID(Slice(stripped, c + 1, e - 1))))
                        => /\ \E n \in 1..Len(placed) :
                                 placed[n] = genericMatch(s, e,
                                     InlineEditNode(ko.editType, Slice(stripped, s + 2, c),
                                                    Slice(stripped, c + 1, e - 1)))
                           /\ \A n \in 1..Len(placed) :
                                 ~(s < placed[n].startIndex /\ placed[n].startIndex < e)

----------------------------------------------------------------------------
(* Failures inside a block                                                  *)

\* source i has a block whose own rendering fails
FailedBlock(i) == IsSource(nodes[i]) /\ BlockRendering(nodes[i]).err # NilErr

\* the node sequence with the block of source i replaced by plain text
WithPlainBlock(i) == [nodes EXCEPT ![i].BlockContent = BlockPlain]

\* the positions where the block of source i is rendered: the source itself
\* unless it is a Move source with a Move target, and the targets of its
\* tag and operation
RenderedAt(i) ==
    (IF nodes[i].Operation = OperationMove /\ TargetsOf(nodes[i].Tag, OperationMove) # {}
     THEN {} ELSE {i})
    \cup TargetsOf(nodes[i].Tag, nodes[i].Operation)

\* C17: a source whose block fails to render does not make the call fail (the
\* call fails exactly when it fails with that block replaced by plain text);
\* when the call does not fail, the error marker stands wherever the block is
\* rendered, a consumed source writes nothing, and every other node is written
\* as with the plain block.
C17_BlockFailureContained ==
    Done =>
        \A i \in 1..Len(nodes) :
            FailedBlock(i)
            => /\ Failed <=> (CleanViewRun(WithPlainBlock(i)).err # NilErr)
               /\ ~Failed
                  => /\ Len(written) = Len(nodes)
                     /\ \A j \in 1..Len(nodes) :
                            written[j] =
                                IF j \in RenderedAt(i)
                                THEN BlockErrorMarker(nodes[i], ErrTransformingContent)
                                ELSE IF j = i THEN <<>>
                                ELSE CleanViewRun(WithPlainBlock(i)).writes[j]

C17_Witness ==
    /\ Done /\ ~Failed
    /\ nodes = <<StructuralSourceNode(OperationMove, TagA, BlockBad), TextNode(<<"x">>),
                 StructuralTargetNode(OperationMove, TagA)>>
    /\ FailedBlock(1)
    /\ written = <<(<<>>), (<<"x">>),
                   BlockErrorMarker(nodes[1], ErrTransformingContent)>>

----------------------------------------------------------------------------
(* The consumed mark                                                        *)

\* the isUsedAsMove mark of the source of node i in the index the call built
Consumed(i) == CleanViewRun(nodes).index.allSources[nodes[i].Tag].isUsedAsMove

\* C20: in a call that completes its scan, a Move source is marked consumed
\* exactly when the sequence holds exactly one Move target of its tag (Copy
\* targets of the tag do not count), and a Copy source is never marked.
C20_ConsumedIffOneMoveTarget ==
    (Done /\ ~Failed) =>
        \A i \in 1..Len(nodes) :
            IsSource(nodes[i])
            => Consumed(i) <=> /\ nodes[i].Operation = OperationMove
                               /\ Cardinality(TargetsOf(nodes[i].Tag, OperationMove)) = 1

\* a Move source with one Move target is marked; a Move source with only a
\* Copy target is not
C20_Witness ==
    /\ Done /\ ~Failed
    /\ nodes = <<StructuralSourceNode(OperationMove, TagA, BlockPlain),
                 StructuralTargetNode(OperationMove, TagA),
                 StructuralTargetNode(OperationCopy, TagA)>>
    /\ Consumed(1)
    /\ written[1] = <<>>

----------------------------------------------------------------------------
(* Keyword shorthands                                                       *)

\* the keyword written in the span of node n: the text between the brace and
\* the first `~` or `:`
SpanKeyword(n) ==
    LET span == OriginalSpan(n)
        tilde == IndexOf(span, "~", 1)
        colon == IndexOf(span, ":", 1)
    IN  SubSeq(span, 2, (IF tilde # 0 /\ (colon = 0 \/ tilde < colon) THEN tilde ELSE colon) - 1)

\* the operation a keyword stands for
OperationOf(kw) == IF kw \in {kwMove, kwMv, kwM} THEN OperationMove ELSE OperationCopy

\* the positions of the targets whose span is written with a keyword of op
WrittenTargets(op) ==
    {j \in 1..Len(nodes) : IsTarget(nodes[j]) /\ OperationOf(SpanKeyword(j)) = op}

\* C18: every span written with any of the six keywords is a node whose
\* operation is the one its keyword stands for; a source written with a move
\* keyword and the one target written with a move keyword pair up (nothing at
\* the source, the block at the target), and a source written with a copy
\* keyword and the targets written with copy keywords all write the block,
\* whichever keyword form each of them uses.
C18_ShorthandsEquivalent ==
    /\ Parsed =>
          /\ \A p \in 1..Len(stripped) :
                 stripped[p] = "{"
                 => \E n \in 1..Len(placed) :
                        placed[n].startIndex = p - 1 /\ IsStructural(placed[n].node)
          /\ \A n \in 1..Len(placed) :
                 IsStructural(placed[n].node)
                 => /\ SpanKeyword(n) \in Keywords
                    /\ placed[n].node.Operation = OperationOf(SpanKeyword(n))
    /\ (Done /\ ~Failed) =>
          \A i \in 1..Len(nodes) :
              IsSource(nodes[i])
              => /\ (OperationOf(SpanKeyword(i)) = OperationMove
                     /\ Cardinality(WrittenTargets(OperationMove)) = 1)
                    => /\ written[i] = <<>>
                       /\ \A j \in WrittenTargets(OperationMove) : written[j] = <<"k">>
                 /\ (OperationOf(SpanKeyword(i)) = OperationCopy
                     /\ WrittenTargets(OperationCopy) # {})
                    => \A j \in {i} \cup WrittenTargets(OperationCopy) : written[j] = <<"k">>

\* a source written `mv` and a target written `move` pair up
C18_Witness ==
    /\ Done /\ ~Failed
    /\ inputText = <<"{","m","o","v","e",":","t","}","{","m","v","~","k","~","t","}">>
    /\ nodes = <<StructuralTargetNode(OperationMove, <<"t">>),
                 StructuralSourceNode(OperationMove, <<"t">>, <<"k">>)>>
    /\ outputText = <<"k">>

----------------------------------------------------------------------------
(* The Move target fallback                                                 *)

\* the source detail that the index of the call holds for the tag of node j
SourceDetailOf(j) == CleanViewRun(nodes).index.allSources[nodes[j].Tag]

\* target j is rendered by the last else-branch of the Move case: its tag has a
\* source of its operation, the block carries no error mark, the operation is
\* Move and the source is not marked
TakesMoveFallback(j) ==
    /\ IsTarget(nodes[j])
    /\ HasKey(CleanViewRun(nodes).index.allSources, nodes[j].Tag)
    /\ nodes[j].Operation = SourceDetailOf(j).node.Operation
    /\ ~HasError(SourceDetailOf(j).transformedBlock)
    /\ nodes[j].Operation = OperationMove
    /\ ~SourceDetailOf(j).isUsedAsMove

\* C21: in a call that reaches the render pass, every Move target whose tag has
\* a Move source with a block that rendered without error finds that source
\* marked consumed; no target is rendered by the unresolved-`{move:tag}`
\* fallback of the Move case, and such a target writes the rendered block.
C21_MoveFallbackUnreachable ==
    (Done /\ ~Failed) =>
        \A j \in 1..Len(nodes) :
            /\ ~TakesMoveFallback(j)
            /\ \A i \in 1..Len(nodes) :
                   (/\ IsTarget(nodes[j]) /\ nodes[j].Operation = OperationMove
                    /\ IsSource(nodes[i]) /\ nodes[i].Operation = OperationMove
                    /\ nodes[i].Tag = nodes[j].Tag
                    /\ BlockRendering(nodes[i]).err = NilErr)
                   => /\ Consumed(i)
                      /\ written[j] = BlockRendering(nodes[i]).out

\* a Move target ahead of its Move source, with another node in between
C21_Witness ==
    /\ Done /\ ~Failed
    /\ nodes = <<StructuralTargetNode(OperationMove, TagA), TextNode(<<"x">>),
                 StructuralSourceNode(OperationMove, TagA, BlockInline)>>
    /\ Consumed(3)
    /\ ~TakesMoveFallback(1)
    /\ written = <<(<<"p">>), (<<"x">>), (<<>>)>>

----------------------------------------------------------------------------
(* The rendered form of a block                                             *)

\* the nodes of a source's block content parsed as a document of its own
BlockNodes(src) == ParseEditMLToNodes(src.BlockContent).nodes

\* the block of source i is rendered somewhere: a Move source with its Move
\* target, a Copy source with a Copy target
Resolved(i) ==
    TargetsOf(nodes[i].Tag, nodes[i].Operation) # {}

\* C22: in a call that completes, the block of a resolved source whose content
\* renders without error is written as the Clean View of its BlockContent
\* parsed as a document of its own, at the Move target (nothing at the Move
\* source), and at the Copy source and each of its Copy targets; when the
\* content holds no structural markup that is its text, additions and
\* highlights concatenated, deletions and comments left out.
C22_BlockRenderedAsDocument ==
    (Done /\ ~Failed) =>
        \A i \in 1..Len(nodes) :
            (IsSource(nodes[i]) /\ Resolved(i) /\ BlockRendering(nodes[i]).err = NilErr)
            => /\ \A j \in TargetsOf(nodes[i].Tag, nodes[i].Operation) :
                      written[j] = BlockRendering(nodes[i]).out
               /\ written[i] = IF nodes[i].Operation = OperationMove THEN <<>>
                               ELSE BlockRendering(nodes[i]).out
               /\ (\A k \in 1..Len(BlockNodes(nodes[i])) : ~IsStructural(BlockNodes(nodes[i])[k]))
                  => BlockRendering(nodes[i]).out = PlainConcat(BlockNodes(nodes[i]))

\* a Copy source whose block holds a highlight and a comment, and its target
C22_Witness ==
    /\ Done /\ ~Failed
    /\ nodes = <<StructuralSourceNode(OperationCopy, TagA, BlockMarked),
                 StructuralTargetNode(OperationCopy, TagA)>>
    /\ written = <<(<<"h">>), (<<"h">>)>>

----------------------------------------------------------------------------
(* Overlap resolution                                                       *)

\* the candidate spans of the matched text in the order of the walk
Candidates == SortMatches(CollectMatches(stripped))

\* the candidate is one of the placed nodes
Accepted(c) == \E n \in 1..Len(placed) : placed[n] = c

\* candidate c starts inside candidate a (at its first offset when a is the
\* longer of two candidates with one start)
StartsInside(c, a) ==
    /\ a # c
    /\ a.startIndex <= c.startIndex /\ c.startIndex < a.endIndex
    /\ a.startIndex = c.startIndex => a.endIndex > c.endIndex

\* C23: the candidates are walked by ascending start offset; a candidate is
\* accepted exactly when it does not start inside an accepted candidate, that
\* is, not before the end of the last accepted span; the others are dropped
\* and Parse reports no issue, so a candidate that starts inside an accepted
\* span is dropped even when it ends after that span.
C23_OverlapResolution ==
    Parsed =>
        /\ \A m, n \in 1..Len(Candidates) :
               m < n => Candidates[m].startIndex <= Candidates[n].startIndex
        /\ \A n \in 1..Len(Candidates) :
               Accepted(Candidates[n])
               <=> ~\E m \in 1..Len(Candidates) :
                       Accepted(Candidates[m]) /\ StartsInside(Candidates[n], Candidates[m])
        /\ \A n \in 1..Len(placed) :
               placed[n].node.type # "TextNode" => \E m \in 1..Len(Candidates) : Candidates[m] = placed[n]
        /\ pc = "parsed" => issues = <<>>

\* the deletion candidate of `{+{-+}-}` starts inside the addition and ends
\* after it: the addition is kept, the deletion is dropped
C23_Witness ==
    /\ pc = "parsed"
    /\ inputText = <<"{","+","{","-","+","}","-","}">>
    /\ Len(Candidates) = 2
    /\ Candidates[2].startIndex = 2 /\ Candidates[2].endIndex = 8
    /\ ~Accepted(Candidates[2])
    /\ nodes = <<InlineEditNode(EditTypeAddition, <<"{","-">>, <<>>), TextNode(<<"-","}">>)>>
    /\ issues = <<>>

----------------------------------------------------------------------------
(* The escapes of block content                                             *)

\* the three general escapes resolved in order, then the escaped tilde, and
\* no escape of an inline operator
GeneralThenTilde(raw) ==
    ReplaceAll(ReplaceAll(ReplaceAll(ReplaceAll(raw, <<BS, BS>>, <<BS>>),
                                     <<BS, "{">>, <<"{">>),
                          <<BS, "}">>, <<"}">>),
               <<BS, "~">>, <<"~">>)

\* C24 (as claimed): the block content of a source is its captured text with
\* the escaped backslash, `\{` and `\}` resolved, then `\~` resolved, and with
\* the escapes of the inline operators (`\+`) left as they are.
C24_BlockContentEscapes ==
    (pc = "decoded" /\ IsSource(nodes[1]))
    => nodes[1].BlockContent = GeneralThenTilde(inputText)

----------------------------------------------------------------------------
(* Long editor ids                                                          *)

\* offset s is the first brace of the text t and opens the addition `{+x+`
\* closed by an alphanumeric id of any length and a brace
AdditionWithID(t, s) ==
    /\ Without(Slice(t, 0, s), {"{"})
    /\ HasPrefixAt(t, s, <<"{","+","x","+">>)
    /\ AlnumRun(t, s + 4) >= 1
    /\ HasPrefixAt(t, s + 4 + AlnumRun(t, s + 4), <<"}">>)

\* C25 (as claimed): an addition whose closing operator is followed by an
\* alphanumeric editor id and a brace is an InlineEdit node carrying that id,
\* whatever the length of the id, six characters and more included.
C25_LongEditorIDAccepted ==
    Parsed =>
        \A s \in 0..Len(stripped) :
            AdditionWithID(stripped, s)
            => \E n \in 1..Len(placed) :
                   placed[n] = genericMatch(s, s + 5 + AlnumRun(stripped, s + 4),
                                   InlineEditNode(EditTypeAddition, <<"x">>,
                                       Slice(stripped, s + 4, s + 4 + AlnumRun(stripped, s + 4))))

----------------------------------------------------------------------------
(* Structural markup inside a block                                         *)

\* some node of the sequence is a source or a target
HasStructural(ns) == \E k \in 1..Len(ns) : IsStructural(ns[k])

\* C26 (as claimed): the BlockContent of every source that Parse returns
\* re-parses to no source and no target.
C26_NoStructuralMarkupInBlock ==
    Parsed =>
        \A n \in 1..Len(nodes) :
            IsSource(nodes[n]) => ~HasStructural(BlockNodes(nodes[n]))

----------------------------------------------------------------------------
(* The depth of the recursion                                               *)

\* the greatest element of a non-empty set of numbers
Max(S) == CHOOSE x \in S : \A y \in S : y <= x

RECURSIVE NestingDepth(_)
\* the structural nesting depth of a text: 0 without a source, else one more
\* than the deepest of the block contents of its sources, each of which the
\* transformer re-parses and renders by a recursive call
NestingDepth(s) ==
    LET depthOf(ns) ==
            IF \E k \in 1..Len(ns) : IsSource(ns[k])
            THEN 1 + Max({NestingDepth(ns[k].BlockContent) :
                             k \in {x \in 1..Len(ns) : IsSource(ns[x])}})
            ELSE 0
    IN  depthOf(ParseEditMLToNodes(s).nodes)

\* the nesting of a block content that holds a source
DeepestNesting == NestingDepth(BlockNested)

\* C27 (as claimed): the recursion is cut at a depth limit: a source whose
\* block content holds a source again (structural markup nested in structural
\* markup, the deepest nesting a block content can have) is refused, the call
\* failing or the block rendering as an error marker, rather than being
\* rendered by further recursive calls.
C27_DepthLimitEnforced ==
    Done =>
        \A i \in 1..Len(nodes) :
            (IsSource(nodes[i]) /\ NestingDepth(nodes[i].BlockContent) = DeepestNesting)
            => Failed \/ HasError(SourceDetailOf(i).transformedBlock)

----------------------------------------------------------------------------
(* Termination of the recursion                                             *)

RECURSIVE BlocksShrink(_)
\* every block content found in the parse of s is strictly shorter than s,
\* and so on inside each of them
BlocksShrink(s) ==
    LET within(ns) ==
            \A k \in 1..Len(ns) :
                IsSource(ns[k])
                => /\ Len(ns[k].BlockContent) < Len(s)
                   /\ BlocksShrink(ns[k].BlockContent)
    IN  within(ParseEditMLToNodes(s).nodes)

----------------------------------------------------------------------------
(* The error-marker path                                                    *)

\* what the normal rules write for source i: nothing for a Move source with
\* its Move target, the rendered block for a Copy source with a Copy target,
\* the literal form for an unresolved source
NormalSourceRendering(i) ==
    IF ~Resolved(i) THEN LiteralSource(nodes[i])
    ELSE IF nodes[i].Operation = OperationMove THEN <<>>
    ELSE BlockRendering(nodes[i]).out

\* C29 (as claimed): in a call that completes, a source whose block content
\* rendered without error is written by the normal rules, whatever characters
\* the content holds, the text `(ERROR_` included.
C29_MarkerOnlyOnFailure ==
    (Done /\ ~Failed) =>
        \A i \in 1..Len(nodes) :
            (IsSource(nodes[i]) /\ BlockRendering(nodes[i]).err = NilErr)
            => written[i] = NormalSourceRendering(i)

----------------------------------------------------------------------------
(* The scope of the tag indices                                             *)

\* the index that the call on the node sequence built
CallIndex == CleanViewRun(nodes).index

\* the positions of the targets of tag t in the node sequence
TopLevelTargets(t) == {j \in 1..Len(nodes) : IsTarget(nodes[j]) /\ nodes[j].Tag = t}

\* C30: the indices of a call hold the nodes of its own sequence only. A
\* target written inside a block content is in neither the target index nor
\* the Move-target counter of the call on the enclosing sequence: the call
\* fails exactly on a conflict among the nodes of the sequence, a source is
\* consumed exactly when the sequence holds one Move target of its tag, and a
\* Copy source is valid exactly when the sequence holds a Copy target of its
\* tag. The block is rendered from its content alone: a target inside it that
\* has no source inside it stays the literal `{move:a}` even when the
\* enclosing sequence has a source of that tag.
C30_IndicesScopedToCall ==
    Done =>
        /\ Failed <=> (DupSourceTag \/ TwoMoveTargets)
        /\ ~Failed =>
              /\ \A t \in {TagA, TagB} :
                     /\ Len(ListOf(CallIndex.allTargets, t)) = Cardinality(TopLevelTargets(t))
                     /\ CountOf(CallIndex.moveTargetCounts, t)
                            = Cardinality(TargetsOf(t, OperationMove))
              /\ \A i \in 1..Len(nodes) :
                     IsSource(nodes[i])
                     => /\ Consumed(i) <=> /\ nodes[i].Operation = OperationMove
                                           /\ Cardinality(TargetsOf(nodes[i].Tag, OperationMove)) = 1
                        /\ isValidCopyOperation(CallIndex, nodes[i])
                               <=> TargetsOf(nodes[i].Tag, OperationCopy) # {}
                        /\ BlockRendering(nodes[i]).err = NilErr
                           => SourceDetailOf(i).transformedBlock = BlockRendering(nodes[i]).out
                        /\ nodes[i].BlockContent = BlockTarget
                           => SourceDetailOf(i).transformedBlock
                                  = LiteralTarget(StructuralTargetNode(OperationMove, TagA))

\* a Move source of tag a next to a source whose block holds a Move target of
\* tag a: the first source is not consumed and the target inside the block
\* stays literal
C30_Witness ==
    /\ Done /\ ~Failed
    /\ nodes = <<StructuralSourceNode(OperationMove, TagA, BlockInline),
                 StructuralSourceNode(OperationCopy, TagB, BlockTarget)>>
    /\ ~Consumed(1)
    /\ ~HasKey(CallIndex.allTargets, TagA)
    /\ written = <<LiteralSource(nodes[1]), LiteralSource(nodes[2])>>

====
